---- MODULE Spec2Model ----
(***************************************************************************)
(* Model of scripts/glibc-shim/glibc_shim.c: four forwarding entry points  *)
(* (__isoc23_strtol/strtoul/strtoll/strtoull) and two failing stubs        *)
(* (pidfd_spawnp, pidfd_getpid), called from one or more execution         *)
(* contexts, each with its own errno.                                      *)
(*                                                                         *)
(* A text is a sequence of one-character strings; a position in a text is  *)
(* a 0-based offset, Len(s) being the offset of the terminating null.      *)
(* A machine word is a little-endian sequence of 16-bit limbs: the result  *)
(* registers are 64 bits wide and arithmetic is carried out limb by limb.  *)
(***************************************************************************)
EXTENDS Integers, Sequences, FiniteSets, TLC

\* ---------------------------------------------------------------- bounds
\* Every text of at most MaxLen characters over Alphabet is an input.
MaxLen == 3
\* Number of execution contexts in the concurrent specification.
NumContexts == 2

\* ------------------------------------------------------- program constants
\* Width in bits of long, unsigned long, long long and unsigned long long
\* on the LP64 target the shim is built for.
LongBits == 64
ENOSYS == 38
ERANGE == 34
EINVAL == 22

\* Words are handled in 16-bit limbs.
LimbBase == 2 ^ 16
NumLimbs == LongBits \div 16

\* ------------------------------------------------------------ word values
Word == [1..NumLimbs -> 0..(LimbBase - 1)]

\* The word holding the small natural n (n < LimbBase).
WordOf(n) == [i \in 1..NumLimbs |-> IF i = 1 THEN n ELSE 0]

ULONG_MAX == [i \in 1..NumLimbs |-> LimbBase - 1]
LONG_MAX == [i \in 1..NumLimbs |-> IF i = NumLimbs THEN (LimbBase \div 2) - 1 ELSE LimbBase - 1]
\* The bit pattern of LONG_MIN, which is also the magnitude -(LONG_MIN).
LONG_MIN == [i \in 1..NumLimbs |-> IF i = NumLimbs THEN LimbBase \div 2 ELSE 0]

\* Limbs i..NumLimbs of w * m, with carry coming in from the limbs below
\* (m and carry small); the carry out of the top limb is dropped.
RECURSIVE MulAddFrom(_, _, _, _)
MulAddFrom(w, m, carry, i) ==
  IF i > NumLimbs THEN <<>>
  ELSE <<(w[i] * m + carry) % LimbBase>>
         \o MulAddFrom(w, m, (w[i] * m + carry) \div LimbBase, i + 1)

\* w * m + a modulo 2^LongBits.
MulAdd(w, m, a) == MulAddFrom(w, m, a, 1)

\* Long division of w by the small divisor d, from limb i downwards with
\* remainder rem coming in from the limbs above: <<quotient limbs, remainder>>.
RECURSIVE DivModFrom(_, _, _, _)
DivModFrom(w, d, rem, i) ==
  IF i = 0 THEN <<(<<>>), rem>>
  ELSE LET below == DivModFrom(w, d, (rem * LimbBase + w[i]) % d, i - 1) IN
       <<below[1] \o <<(rem * LimbBase + w[i]) \div d>>, below[2]>>

DivSmall(w, d) == DivModFrom(w, d, 0, NumLimbs)[1]
ModSmall(w, d) == DivModFrom(w, d, 0, NumLimbs)[2]

\* Unsigned comparison a > b, from limb i downwards.
RECURSIVE GtFrom(_, _, _)
GtFrom(a, b, i) ==
  IF i = 0 THEN FALSE
  ELSE IF a[i] # b[i] THEN a[i] > b[i]
  ELSE GtFrom(a, b, i - 1)

Gt(a, b) == GtFrom(a, b, NumLimbs)

\* Two's complement negation: ~w + 1 modulo 2^LongBits.
Negate(w) == MulAdd([i \in 1..NumLimbs |-> LimbBase - 1 - w[i]], 1, 1)

\* ------------------------------------------------------------------ texts
NUL == ""
Digits == <<"0", "1", "2", "3", "4", "5", "6", "7", "8", "9">>
Lower == <<"a", "b", "c", "d", "e", "f", "g", "h", "i", "j", "k", "l", "m",
           "n", "o", "p", "q", "r", "s", "t", "u", "v", "w", "x", "y", "z">>
Upper == <<"A", "B", "C", "D", "E", "F", "G", "H", "I", "J", "K", "L", "M",
           "N", "O", "P", "Q", "R", "S", "T", "U", "V", "W", "X", "Y", "Z">>

IndexIn(seq, c) == CHOOSE i \in 1..Len(seq) : seq[i] = c
InSeq(seq, c) == \E i \in 1..Len(seq) : seq[i] = c

\* The character at offset k of the null-terminated text s.
CharAt(s, k) == IF k < Len(s) THEN s[k + 1] ELSE NUL

\* The vertical tab (0x0b), which has no escape in a string: the literal
\* holds the character itself.
VT == ""

\* isspace in the C locale: space, \t, \n, \v, \f, \r.
ISSPACE(c) == c \in {" ", "\t", "\n", VT, "\f", "\r"}

\* The value of c as a digit, or 36 (no digit in any base) when it is none.
DigitValue(c) ==
  IF InSeq(Digits, c) THEN IndexIn(Digits, c) - 1
  ELSE IF InSeq(Lower, c) THEN IndexIn(Lower, c) + 9
  ELSE IF InSeq(Upper, c) THEN IndexIn(Upper, c) + 9
  ELSE 36
TOUPPER(c) == IF InSeq(Lower, c) THEN Upper[IndexIn(Lower, c)] ELSE c

\* ----------------------------------------- the C library's strto* family
\* The outcome of one conversion: the returned word, whether *endptr is
\* stored and with which offset, and the store to errno (<<>>: errno is not
\* touched, <<e>>: errno = e).
Outcome(ret, wrote, end, err) == [ret |-> ret, wrote |-> wrote, end |-> end, err |-> err]

\* while (ISSPACE(*s)) ++s;
RECURSIVE SkipSpace(_, _)
SkipSpace(s, k) == IF ISSPACE(CharAt(s, k)) THEN SkipSpace(s, k + 1) ELSE k

\* The digit loop: from offset k with accumulator i, consume digits below
\* base; a digit that would take i past ULONG_MAX sets the overflow flag and
\* leaves i alone, and scanning goes on to the end of the digits.
RECURSIVE ScanDigits(_, _, _, _, _, _, _)
ScanDigits(s, base, k, i, overflow, cutoff, cutlim) ==
  LET c == DigitValue(CharAt(s, k)) IN
  IF c >= base THEN [i |-> i, overflow |-> overflow, k |-> k]
  ELSE IF Gt(i, cutoff) \/ (i = cutoff /\ c > cutlim)
       THEN ScanDigits(s, base, k + 1, i, TRUE, cutoff, cutlim)
       ELSE ScanDigits(s, base, k + 1, MulAdd(i, base, c), overflow, cutoff, cutlim)

\* The radix in effect at offset k (after white space and sign) and the
\* number of prefix characters skipped: "0x"/"0X" is skipped for base 0 and
\* 16, a leading "0" makes base 0 octal, anything else makes base 0 decimal.
Prefix(s, k, base) ==
  IF CharAt(s, k) = "0"
  THEN IF base \in {0, 16} /\ TOUPPER(CharAt(s, k + 1)) = "X"
       THEN [base |-> 16, skip |-> 2]
       ELSE IF base = 0 THEN [base |-> 8, skip |-> 0]
       ELSE [base |-> base, skip |-> 0]
  ELSE IF base = 0 THEN [base |-> 10, skip |-> 0]
  ELSE [base |-> base, skip |-> 0]

\* noconv: nothing was converted. *endptr is nptr, except after a skipped
\* "0x" with no hexadecimal digit behind it, where it is the 'x'.
NoConv(s, save, endptr) ==
  IF save >= 2 /\ TOUPPER(CharAt(s, save - 1)) = "X" /\ CharAt(s, save - 2) = "0"
  THEN Outcome(WordOf(0), endptr, save - 1, <<>>)
  ELSE Outcome(WordOf(0), endptr, 0, <<>>)

\* The common body of strtol, strtoul, strtoll and strtoull. endptr is TRUE
\* when the caller passes a slot, FALSE when it passes a null pointer.
StrToInt(s, endptr, base0, unsigned) ==
  IF base0 < 0 \/ base0 = 1 \/ base0 > 36
  THEN Outcome(WordOf(0), FALSE, 0, <<EINVAL>>)
  ELSE
    LET k0 == SkipSpace(s, 0) IN
    IF CharAt(s, k0) = NUL THEN NoConv(s, 0, endptr)
    ELSE
      LET negative == CharAt(s, k0) = "-"
          k1 == IF CharAt(s, k0) \in {"-", "+"} THEN k0 + 1 ELSE k0
          pre == Prefix(s, k1, base0)
          base == pre.base
          save == k1 + pre.skip
          cutoff == DivSmall(ULONG_MAX, base)
          cutlim == ModSmall(ULONG_MAX, base)
          r == ScanDigits(s, base, save, WordOf(0), FALSE, cutoff, cutlim)
          limit == IF negative THEN LONG_MIN ELSE LONG_MAX
          overflow == r.overflow \/ (~unsigned /\ Gt(r.i, limit))
      IN
      IF r.k = save THEN NoConv(s, save, endptr)
      ELSE IF overflow
           THEN Outcome(IF unsigned THEN ULONG_MAX ELSE limit, endptr, r.k, <<ERANGE>>)
           ELSE Outcome(IF negative THEN Negate(r.i) ELSE r.i, endptr, r.k, <<>>)

strtol(nptr, endptr, base) == StrToInt(nptr, endptr, base, FALSE)
strtoul(nptr, endptr, base) == StrToInt(nptr, endptr, base, TRUE)
strtoll(nptr, endptr, base) == StrToInt(nptr, endptr, base, FALSE)
strtoull(nptr, endptr, base) == StrToInt(nptr, endptr, base, TRUE)
\* ---------------------------------------------------------------- errno
\* errno is a thread-local lvalue: a store from context t changes the errno
\* of t alone.
\* (variant: errno as one process-wide variable shared by every context)
SetErrno_shared(e, t, v) == [u \in DOMAIN e |-> v]
SetErrno(e, t, v) == [e EXCEPT ![t] = v]

\* ------------------------------------------------------- glibc_shim.c
\* Variants of the entry points, each a slip the forwarding code could make.
\* (forwards to the unsigned routine)
__isoc23_strtol_unsigned(nptr, endptr, base) == strtoul(nptr, endptr, base)
\* (clears errno before forwarding)
__isoc23_strtol_clearing(nptr, endptr, base) ==
  LET r == strtol(nptr, endptr, base) IN
  [r EXCEPT !.err = IF @ = <<>> THEN <<0>> ELSE @]
\* (implements the C23 routine: "0b"/"0B" before a binary digit is a prefix
\* for base 0 and base 2)
__isoc23_strtoul_c23(nptr, endptr, base) ==
  LET k0 == SkipSpace(nptr, 0)
      k1 == IF CharAt(nptr, k0) \in {"-", "+"} THEN k0 + 1 ELSE k0
      binary == /\ base \in {0, 2}
                /\ CharAt(nptr, k1) = "0"
                /\ TOUPPER(CharAt(nptr, k1 + 1)) = "B"
                /\ CharAt(nptr, k1 + 2) \in {"0", "1"}
      rest == SubSeq(nptr, 1, k1) \o SubSeq(nptr, k1 + 3, Len(nptr))
      r == strtoul(rest, endptr, 2)
  IN IF binary THEN [r EXCEPT !.end = @ + 2] ELSE strtoul(nptr, endptr, base)
\* (reports a text without digits as an error)
__isoc23_strtoll_strict(nptr, endptr, base) ==
  LET r == strtoll(nptr, endptr, base) IN
  IF r.end = 0 /\ r.err = <<>> THEN [r EXCEPT !.err = <<EINVAL>>] ELSE r
\* (saves errno around the forwarded call and restores it)
__isoc23_strtoull_quiet(nptr, endptr, base) ==
  [strtoull(nptr, endptr, base) EXCEPT !.err = <<>>]

\* The four forwarding entry points.
__isoc23_strtol(nptr, endptr, base) == strtol(nptr, endptr, base)
__isoc23_strtoul(nptr, endptr, base) == strtoul(nptr, endptr, base)
__isoc23_strtoll(nptr, endptr, base) == strtoll(nptr, endptr, base)
__isoc23_strtoull(nptr, endptr, base) == strtoull(nptr, endptr, base)

\* The outcome of a stub call: the returned int, the store to errno, and
\* whether (and what) it stores through its pidfd output pointer.
StubOutcome(ret, err, wrote, out) == [ret |-> ret, err |-> err, wrote |-> wrote, out |-> out]

\* (variant: marks the output descriptor invalid before failing)
pidfd_spawnp_marking(pidfd, file, file_actions, attrp, argv, envp) ==
  StubOutcome(-1, <<ENOSYS>>, pidfd # "NULL", -1)
\* (variant: returns the error number, as posix_spawnp does, and leaves
\* errno alone)
pidfd_spawnp_posix(pidfd, file, file_actions, attrp, argv, envp) ==
  StubOutcome(ENOSYS, <<>>, FALSE, 0)

pidfd_spawnp(pidfd, file, file_actions, attrp, argv, envp) ==
  StubOutcome(-1, <<ENOSYS>>, FALSE, 0)

pidfd_getpid(pidfd) == StubOutcome(-1, <<ENOSYS>>, FALSE, 0)

\* ----------------------------------------------------------------- inputs
NULL == "NULL"
PTR == "ptr"

Conversions == {"__isoc23_strtol", "__isoc23_strtoul", "__isoc23_strtoll", "__isoc23_strtoull"}
Stubs == {"pidfd_spawnp", "pidfd_getpid"}

Alphabet == {" ", "-", "0", "1", "9", "b", "x"}
ShortTexts == UNION {[1..n -> Alphabet] : n \in 0..MaxLen}

Rep(c, n) == [i \in 1..n |-> c]
LongMaxText == <<"9", "2", "2", "3", "3", "7", "2", "0", "3", "6",
                 "8", "5", "4", "7", "7", "5", "8", "0", "7">>
ULongMaxText == <<"1", "8", "4", "4", "6", "7", "4", "4", "0", "7",
                  "3", "7", "0", "9", "5", "5", "1", "6", "1", "5">>
\* The text t with its last character replaced by c.
WithLast(t, c) == [t EXCEPT ![Len(t)] = c]

\* Texts at and just past the limits of the result types, and the texts of
\* the documented scenarios.
EdgeTexts ==
  { <<"1", "2", "3">>, <<"0", "x", "1", "F">>, <<"0", "X", "1", "f">>,
    <<"0", "b", "1">>, <<"0", "B", "1", "1">>, <<"+", "7">>, <<"\t", "+", "0", "1", "7", "8">>,
    <<VT, "1">>, <<" ", VT, " ", "7">>, <<VT, "0", "b">>, <<"\n", "\f", "\r", VT, "-", "0", "x", "7", "B">>,
    <<VT>>, <<"1", VT, "2">>,
    <<"a", "b", "c">>, <<"0", "x", "g">>, <<"z", "Z", "!">>,
    LongMaxText, WithLast(LongMaxText, "8"),
    <<"-">> \o WithLast(LongMaxText, "8"), <<"-">> \o WithLast(LongMaxText, "9"),
    ULongMaxText, WithLast(ULongMaxText, "6"),
    <<"-">> \o ULongMaxText, <<"-">> \o WithLast(ULongMaxText, "6"),
    LongMaxText \o <<"0", "0", "x">>,
    <<"0", "x">> \o Rep("F", 16), <<"0", "x", "1">> \o Rep("0", 16),
    <<"0", "x", "7">> \o Rep("f", 15), <<"-", "0", "x", "8">> \o Rep("0", 15),
    <<"-", "0", "x", "8">> \o Rep("0", 14) \o <<"1">>,
    Rep("1", 64), Rep("1", 65), Rep("z", 12), Rep("z", 13) }

Bases == {0, 2, 8, 10, 16, 36}

ConvArgs(texts, bases) == [nptr : texts, endptr : BOOLEAN, base : bases]

SpawnArg(p, q) ==
  [pidfd |-> p, file |-> q, file_actions |-> q, attrp |-> q, argv |-> q, envp |-> q]
SpawnArgs == {SpawnArg(p, q) : p \in {NULL, PTR}, q \in {NULL, PTR}}
GetpidArgs == {-1, 0, 42}

\* What the callers of a run may pass.
SeqInputs == [conv |-> ConvArgs(ShortTexts \cup EdgeTexts, Bases),
              spawn |-> SpawnArgs, getpid |-> GetpidArgs]
\* Concurrent callers convert LONG_MAX + 1, which is out of range for the
\* signed entry points and in range for the unsigned ones.
ConcInputs == [conv |-> [nptr : {WithLast(LongMaxText, "8")}, endptr : {TRUE}, base : {10}],
               spawn |-> {SpawnArg(PTR, PTR)}, getpid |-> {42}]

\* ------------------------------------------------------------------ state
VARIABLES
  workload, \* which arguments callers draw from (fixed by the initial state)
  pc,       \* per context: "idle", "running" (inside a call) or "done"
            \* (the call has returned and the caller looks at its outcome)
  call,     \* per context: the call in progress or last completed
  ret,      \* per context: <<v>>, the value v the completed call returned
  errno,    \* per context: the thread-local error code
  endp,     \* per context: the caller's end-pointer slot, <<k>> once offset
            \* k is stored in it
  pidfdOut  \* per context: the caller's process-descriptor output slot, <<v>>
            \* once v is stored in it

vars == <<workload, pc, call, ret, errno, endp, pidfdOut>>

\* The content of a slot or result register nobody has stored to.
Unwritten == <<>>

NoCall == [fn |-> "none"]

\* The arguments callers draw from under the current workload.
inputs == IF workload = "sequential" THEN SeqInputs ELSE ConcInputs

InitFor(contexts, w) ==
  /\ workload = w
  /\ pc = [t \in contexts |-> "idle"]
  /\ call = [t \in contexts |-> NoCall]
  /\ ret = [t \in contexts |-> Unwritten]
  /\ errno = [t \in contexts |-> 0]
  /\ endp = [t \in contexts |-> Unwritten]
  /\ pidfdOut = [t \in contexts |-> Unwritten]

Init == InitFor({1}, "sequential")
InitConc == InitFor(1..NumContexts, "concurrent")

Contexts == DOMAIN pc

\* Context t, not inside a call, enters an entry point: the caller has fresh
\* output slots and the call sees the errno the context has at this moment.
Enter(t, c) ==
  /\ pc' = [pc EXCEPT ![t] = "running"]
  /\ call' = [call EXCEPT ![t] = c @@ [errno0 |-> errno[t]]]
  /\ ret' = [ret EXCEPT ![t] = Unwritten]
  /\ endp' = [endp EXCEPT ![t] = Unwritten]
  /\ pidfdOut' = [pidfdOut EXCEPT ![t] = Unwritten]
  /\ UNCHANGED <<workload, errno>>

CallConversion(t) ==
  /\ pc[t] = "idle"
  /\ \E fn \in Conversions, a \in inputs.conv : Enter(t, [fn |-> fn, arg |-> a])

CallSpawnp(t) ==
  /\ pc[t] = "idle"
  /\ \E a \in inputs.spawn : Enter(t, [fn |-> "pidfd_spawnp", arg |-> a])

CallGetpid(t) ==
  /\ pc[t] = "idle"
  /\ \E a \in inputs.getpid : Enter(t, [fn |-> "pidfd_getpid", arg |-> a])

\* The body of a forwarding entry point runs and returns r.
Forward(t, r) ==
  /\ pc' = [pc EXCEPT ![t] = "done"]
  /\ ret' = [ret EXCEPT ![t] = <<r.ret>>]
  /\ errno' = IF r.err # <<>> THEN SetErrno(errno, t, r.err[1]) ELSE errno
  /\ endp' = IF r.wrote THEN [endp EXCEPT ![t] = <<r.end>>] ELSE endp
  /\ UNCHANGED <<workload, call, pidfdOut>>

Running(t, fn) == pc[t] = "running" /\ call[t].fn = fn

Run_isoc23_strtol(t) ==
  /\ Running(t, "__isoc23_strtol")
  /\ Forward(t, __isoc23_strtol(call[t].arg.nptr, call[t].arg.endptr, call[t].arg.base))

Run_isoc23_strtoul(t) ==
  /\ Running(t, "__isoc23_strtoul")
  /\ Forward(t, __isoc23_strtoul(call[t].arg.nptr, call[t].arg.endptr, call[t].arg.base))

Run_isoc23_strtoll(t) ==
  /\ Running(t, "__isoc23_strtoll")
  /\ Forward(t, __isoc23_strtoll(call[t].arg.nptr, call[t].arg.endptr, call[t].arg.base))

Run_isoc23_strtoull(t) ==
  /\ Running(t, "__isoc23_strtoull")
  /\ Forward(t, __isoc23_strtoull(call[t].arg.nptr, call[t].arg.endptr, call[t].arg.base))

\* The body of a stub runs and returns r.
Fail(t, r) ==
  /\ pc' = [pc EXCEPT ![t] = "done"]
  /\ ret' = [ret EXCEPT ![t] = <<r.ret>>]
  /\ errno' = IF r.err # <<>> THEN SetErrno(errno, t, r.err[1]) ELSE errno
  /\ pidfdOut' = IF r.wrote THEN [pidfdOut EXCEPT ![t] = <<r.out>>] ELSE pidfdOut
  /\ UNCHANGED <<workload, call, endp>>

Run_pidfd_spawnp(t) ==
  /\ Running(t, "pidfd_spawnp")
  /\ LET a == call[t].arg IN
     Fail(t, pidfd_spawnp(a.pidfd, a.file, a.file_actions, a.attrp, a.argv, a.envp))

Run_pidfd_getpid(t) ==
  /\ Running(t, "pidfd_getpid")
  /\ Fail(t, pidfd_getpid(call[t].arg))

\* The caller has looked at the outcome of its call and moves on; its
\* output slots go out of scope, its errno stays.
Return(t) ==
  /\ pc[t] = "done"
  /\ pc' = [pc EXCEPT ![t] = "idle"]
  /\ call' = [call EXCEPT ![t] = NoCall]
  /\ ret' = [ret EXCEPT ![t] = Unwritten]
  /\ endp' = [endp EXCEPT ![t] = Unwritten]
  /\ pidfdOut' = [pidfdOut EXCEPT ![t] = Unwritten]
  /\ UNCHANGED <<workload, errno>>

Next ==
  \/ \E t \in Contexts : CallConversion(t)
  \/ \E t \in Contexts : CallSpawnp(t)
  \/ \E t \in Contexts : CallGetpid(t)
  \/ \E t \in Contexts : Run_isoc23_strtol(t)
  \/ \E t \in Contexts : Run_isoc23_strtoul(t)
  \/ \E t \in Contexts : Run_isoc23_strtoll(t)
  \/ \E t \in Contexts : Run_isoc23_strtoull(t)
  \/ \E t \in Contexts : Run_pidfd_spawnp(t)
  \/ \E t \in Contexts : Run_pidfd_getpid(t)
  \/ \E t \in Contexts : Return(t)

Spec == Init /\ [][Next]_vars
SpecConc == InitConc /\ [][Next]_vars
\* ======================================================================
\* What a numeric text denotes, stated independently of the routines above:
\* the subject sequence of the C standard, with its value as an unbounded
\* natural number (a little-endian limb sequence without high zero limbs).
\* ======================================================================
RECURSIVE BigMulAdd(_, _, _)
BigMulAdd(n, m, a) ==
  IF n = <<>> THEN (IF a = 0 THEN <<>> ELSE <<a>>)
  ELSE <<(n[1] * m + a) % LimbBase>> \o BigMulAdd(Tail(n), m, (n[1] * m + a) \div LimbBase)

RECURSIVE BigOfWord(_)
BigOfWord(w) ==
  IF Len(w) = 0 THEN <<>>
  ELSE IF w[Len(w)] = 0 THEN BigOfWord(SubSeq(w, 1, Len(w) - 1))
  ELSE w

BigGt(a, b) ==
  \/ Len(a) > Len(b)
  \/ /\ Len(a) = Len(b)
     /\ \E i \in 1..Len(a) : a[i] > b[i] /\ \A j \in (i + 1)..Len(a) : a[j] = b[j]

\* The white-space characters of the C standard (isspace in the C locale):
\* space, form feed, new line, carriage return, horizontal and vertical tab.
WhiteSpace == {" ", "\f", "\n", "\r", "\t", VT}

\* Offset of the first character that is not white space.
BodyStart(s) ==
  CHOOSE k \in 0..Len(s) :
    /\ CharAt(s, k) \notin WhiteSpace
    /\ \A j \in 0..(k - 1) : CharAt(s, j) \in WhiteSpace

IsDigitIn(c, radix) == DigitValue(c) < radix

\* Offset of the first character behind the longest run of digits from d.
RunEnd(s, d, radix) ==
  CHOOSE e \in d..Len(s) :
    /\ \A j \in d..(e - 1) : IsDigitIn(CharAt(s, j), radix)
    /\ ~IsDigitIn(CharAt(s, e), radix)

\* The value of the digits of s at offsets from..(to - 1) in the given
\* radix, appended to the digits whose value is acc (leading zeros add
\* nothing).
RECURSIVE BigValue(_, _, _, _, _)
BigValue(s, from, to, radix, acc) ==
  IF from >= to THEN acc
  ELSE IF acc = <<>> /\ CharAt(s, from) = "0" THEN BigValue(s, from + 1, to, radix, <<>>)
  ELSE BigValue(s, from + 1, to, radix, BigMulAdd(acc, radix, DigitValue(CharAt(s, from))))

\* What the text s denotes in the given base:
\*   negative   it carries a minus sign;
\*   radix      the radix of the pre-C23 rule: with base 0, "0x"/"0X" selects
\*              16, a leading "0" selects 8, anything else 10;
\*   none       it has no convertible digit;
\*   end        where the end pointer belongs: behind the digits (which
\*              start behind a hexadecimal prefix only if a hexadecimal
\*              digit follows it), or at the start of the text if none;
\*   magnitude  the value of the digits.
Denotes(s, base) ==
  LET b == BodyStart(s)
      n == b + (IF CharAt(s, b) \in {"-", "+"} THEN 1 ELSE 0)
      hex == CharAt(s, n) = "0" /\ CharAt(s, n + 1) \in {"x", "X"}
      radix == IF base # 0 THEN base
               ELSE IF hex THEN 16
               ELSE IF CharAt(s, n) = "0" THEN 8
               ELSE 10
      d == IF radix = 16 /\ hex /\ IsDigitIn(CharAt(s, n + 2), 16) THEN n + 2 ELSE n
      e == RunEnd(s, d, radix)
  IN [negative |-> CharAt(s, b) = "-",
      radix |-> radix,
      none |-> e = d,
      end |-> IF e = d THEN 0 ELSE e,
      magnitude |-> BigValue(s, d, e, radix, <<>>)]

IsUnsigned(fn) == fn \in {"__isoc23_strtoul", "__isoc23_strtoull"}

\* The limit a conversion by fn of a text denoting den is clamped to.
Clamp(fn, den) ==
  IF IsUnsigned(fn) THEN ULONG_MAX ELSE IF den.negative THEN LONG_MIN ELSE LONG_MAX

\* The text denotes a value the result type of fn cannot hold (the limits
\* double as the largest magnitudes: LONG_MIN has the bit pattern of 2^63).
OutOfRange(fn, den) == ~den.none /\ BigGt(den.magnitude, BigOfWord(Clamp(fn, den)))

\* The magnitude of the returned word w for a text denoting den.
MagnitudeOf(w, den) == BigOfWord(IF den.negative THEN Negate(w) ELSE w)

\* The pre-existing routine an entry point stands in for.
Classic(fn, nptr, endptr, base) ==
  CASE fn = "__isoc23_strtol" -> strtol(nptr, endptr, base)
    [] fn = "__isoc23_strtoul" -> strtoul(nptr, endptr, base)
    [] fn = "__isoc23_strtoll" -> strtoll(nptr, endptr, base)
    [] fn = "__isoc23_strtoull" -> strtoull(nptr, endptr, base)

Done(t, fns) == pc[t] = "done" /\ call[t].fn \in fns
\* The step in which the body of t's call to one of fns runs and returns.
Returns(t, fns) == pc[t] = "running" /\ call[t].fn \in fns /\ pc'[t] = "done"

TextOf123 == <<"1", "2", "3">>
TextOf0x1F == <<"0", "x", "1", "F">>
TextOf0b1 == <<"0", "b", "1">>

\* ======================================================================
\* Claims
\* ======================================================================

\* C1: every completed call of a shimmed conversion function has returned
\* the value, left the end-pointer slot at the position (or untouched, for
\* a null end pointer) and left errno as the corresponding pre-existing
\* function (strtol, strtoul, strtoll, strtoull) does on the same arguments.
C1_ForwardingEquivalence ==
  \A t \in Contexts : Done(t, Conversions) =>
    LET a == call[t].arg
        r == Classic(call[t].fn, a.nptr, a.endptr, a.base)
    IN /\ ret[t] = <<r.ret>>
       /\ endp[t] = (IF r.wrote THEN <<r.end>> ELSE Unwritten)
       /\ errno[t] = (IF r.err = <<>> THEN call[t].errno0 ELSE r.err[1])

\* A signed call on LONG_MAX + 1 has completed, clamped as strtol clamps it
\* (strtoul would have returned 2^63 without an error).
C1_Witness ==
  \E t \in Contexts :
    /\ Done(t, {"__isoc23_strtol"})
    /\ call[t].arg = [nptr |-> WithLast(LongMaxText, "8"), endptr |-> TRUE, base |-> 10]
    /\ ret[t] = <<LONG_MAX>>
    /\ endp[t] = <<19>>
    /\ errno[t] = ERANGE

\* C2: every completed call of pidfd_spawnp or pidfd_getpid, whatever its
\* arguments (null pointers included) and whatever errno was before, has
\* returned a negative value and left the caller's errno at ENOSYS.
C2_StubsFailWithENOSYS ==
  \A t \in Contexts : Done(t, Stubs) => (ret[t][1] < 0 /\ errno[t] = ENOSYS)

\* pidfd_spawnp has completed with every pointer argument null, from a
\* context whose errno held another error before the call.
C2_Witness ==
  \E t \in Contexts :
    /\ Done(t, {"pidfd_spawnp"})
    /\ call[t].arg = SpawnArg(NULL, NULL)
    /\ call[t].errno0 = ERANGE
    /\ ret[t] = <<-1>>
    /\ errno[t] = ENOSYS

\* C3: every completed call of pidfd_spawnp or pidfd_getpid has returned
\* -ENOSYS, the negated error number, as the file's header comment states.
C3_StubsReturnNegatedENOSYS ==
  \A t \in Contexts : Done(t, Stubs) => ret[t] = <<-ENOSYS>>

\* C4: a completed conversion of a text without a convertible digit in its
\* base (the empty text included) has returned 0, stored the start of the
\* text in the end-pointer slot, and left errno as it was before the call.
C4_NoDigitsYieldsZero ==
  \A t \in Contexts : Done(t, Conversions) =>
    LET a == call[t].arg IN
    Denotes(a.nptr, a.base).none =>
      /\ ret[t] = <<WordOf(0)>>
      /\ a.endptr => endp[t] = <<0>>
      /\ errno[t] = call[t].errno0

\* The empty text has been converted in base 10 from a context without a
\* pending error.
C4_Witness ==
  \E t \in Contexts :
    /\ Done(t, {"__isoc23_strtoll"})
    /\ call[t].arg = [nptr |-> <<>>, endptr |-> TRUE, base |-> 10]
    /\ call[t].errno0 = 0
    /\ ret[t] = <<WordOf(0)>>
    /\ endp[t] = <<0>>
    /\ errno[t] = 0

\* C5: a completed in-range conversion has returned the value of the digits
\* read in the radix of the pre-C23 rule (base 0: "0x"/"0X" selects 16, a
\* leading "0" selects 8, anything else 10; no other prefix) and has left
\* the end pointer behind those digits; "0x1F" in base 0 gives 31 and "123"
\* in base 10 gives 123, both with the end pointer at the terminating null,
\* and "0b1" in base 0 gives 0 with the end pointer at the "b".
C5_PreC23Radix ==
  \A t \in Contexts : Done(t, Conversions) =>
    LET a == call[t].arg
        w == ret[t][1]
        den == Denotes(a.nptr, a.base)
    IN /\ ~OutOfRange(call[t].fn, den) =>
            /\ MagnitudeOf(w, den) = den.magnitude
            /\ a.endptr => endp[t] = <<den.end>>
       /\ (a.nptr = TextOf0x1F /\ a.base = 0) =>
            (w = WordOf(31) /\ (a.endptr => endp[t] = <<4>>))
       /\ (a.nptr = TextOf123 /\ a.base = 10) =>
            (w = WordOf(123) /\ (a.endptr => endp[t] = <<3>>))
       /\ (a.nptr = TextOf0b1 /\ a.base = 0) =>
            (w = WordOf(0) /\ (a.endptr => endp[t] = <<1>>))

\* "0x1F" has been converted in base 0.
C5_Witness ==
  \E t \in Contexts :
    /\ Done(t, {"__isoc23_strtoul"})
    /\ call[t].arg = [nptr |-> TextOf0x1F, endptr |-> TRUE, base |-> 0]
    /\ ret[t] = <<WordOf(31)>>
    /\ endp[t] = <<4>>

\* C6: a completed conversion of a text whose value is outside the range of
\* the result type has returned the limit of that type (LONG_MIN or LONG_MAX
\* by sign for the signed functions, ULONG_MAX for the unsigned ones), left
\* the end pointer behind the digits and set errno to ERANGE; and a
\* conversion leaves errno changed only in that case.
C6_OutOfRangePropagated ==
  \A t \in Contexts : Done(t, Conversions) =>
    LET a == call[t].arg
        den == Denotes(a.nptr, a.base)
        out == OutOfRange(call[t].fn, den)
    IN /\ out =>
            /\ ret[t] = <<Clamp(call[t].fn, den)>>
            /\ a.endptr => endp[t] = <<den.end>>
            /\ errno[t] = ERANGE
       /\ errno[t] # call[t].errno0 => out

\* ULONG_MAX + 1 has been converted by the unsigned long long function from
\* a context without a pending error.
C6_Witness ==
  \E t \in Contexts :
    /\ Done(t, {"__isoc23_strtoull"})
    /\ call[t].arg = [nptr |-> WithLast(ULongMaxText, "6"), endptr |-> TRUE, base |-> 10]
    /\ call[t].errno0 = 0
    /\ ret[t] = <<ULONG_MAX>>
    /\ endp[t] = <<20>>
    /\ errno[t] = ERANGE

\* What a call c leaves behind when it runs alone in a context whose errno
\* is e: <<result, end-pointer slot, errno>>.
Alone(c, e) ==
  IF c.fn \in Stubs THEN <<(<<-1>>), Unwritten, ENOSYS>>
  ELSE LET r == Classic(c.fn, c.arg.nptr, c.arg.endptr, c.arg.base) IN
       << <<r.ret>>,
          IF r.wrote THEN <<r.end>> ELSE Unwritten,
          IF r.err = <<>> THEN e ELSE r.err[1] >>

\* C7: under any interleaving of calls from several contexts, a step of one
\* context leaves the errno, result and slots of every other context alone,
\* and the step that completes a call leaves in the caller's own context
\* the result and errno the call produces when run alone.
C7_ContextsIsolated ==
  [][\A t \in Contexts :
       /\ pc'[t] = pc[t] =>
            /\ errno'[t] = errno[t]
            /\ ret'[t] = ret[t]
            /\ endp'[t] = endp[t]
            /\ pidfdOut'[t] = pidfdOut[t]
            /\ call'[t] = call[t]
       /\ Returns(t, Conversions \cup Stubs) =>
            <<ret'[t], endp'[t], errno'[t]>> = Alone(call[t], errno[t])]_vars

\* One context has completed an in-range conversion with its errno still 0
\* while another has completed a stub call and has errno ENOSYS.
C7_Witness ==
  \E t, u \in Contexts :
    /\ t # u
    /\ Done(t, {"__isoc23_strtoul"})
    /\ ret[t] = <<LONG_MIN>>
    /\ errno[t] = 0
    /\ Done(u, Stubs)
    /\ errno[u] = ENOSYS

\* C8: the step that completes a conversion call changes nothing but the
\* caller's result, its errno and (only for a non-null end pointer) its
\* end-pointer slot; and errno changes in no step other than the completion
\* of a stub call or of an out-of-range conversion, so an ENOSYS left by a
\* stub call survives any number of in-range conversions.
C8_ConversionFrame ==
  [][\A t \in Contexts :
       /\ Returns(t, Conversions) =>
            /\ pidfdOut' = pidfdOut
            /\ call' = call
            /\ ~call[t].arg.endptr => endp' = endp
            /\ \A u \in Contexts \ {t} :
                 errno'[u] = errno[u] /\ ret'[u] = ret[u] /\ endp'[u] = endp[u]
       /\ errno'[t] # errno[t] =>
            \/ Returns(t, Stubs)
            \/ /\ Returns(t, Conversions)
               /\ OutOfRange(call[t].fn, Denotes(call[t].arg.nptr, call[t].arg.base))]_vars

\* An in-range conversion with a null end pointer has completed in a
\* context whose errno was ENOSYS before the call and still is.
C8_Witness ==
  \E t \in Contexts :
    /\ Done(t, Conversions)
    /\ call[t].arg = [nptr |-> TextOf123, endptr |-> FALSE, base |-> 10]
    /\ call[t].errno0 = ENOSYS
    /\ ret[t] = <<WordOf(123)>>
    /\ endp[t] = Unwritten
    /\ errno[t] = ENOSYS

\* C9: a stub call completes in the one step its body takes, and that step
\* changes nothing but the caller's result and errno: no output slot is
\* written (the process-descriptor slot included), the arguments are left
\* as they were, and no other context is affected.
C9_StubFrame ==
  [][\A t \in Contexts :
       (pc[t] = "running" /\ call[t].fn \in Stubs /\ pc'[t] # pc[t]) =>
         /\ pc'[t] = "done"
         /\ pidfdOut' = pidfdOut
         /\ endp' = endp
         /\ call' = call
         /\ \A u \in Contexts \ {t} :
              errno'[u] = errno[u] /\ ret'[u] = ret[u] /\ pc'[u] = pc[u]]_vars

\* pidfd_spawnp has completed for a caller that passed a process-descriptor
\* slot, and the slot is as it was.
C9_Witness ==
  \E t \in Contexts :
    /\ Done(t, {"pidfd_spawnp"})
    /\ call[t].arg.pidfd = PTR
    /\ pidfdOut[t] = Unwritten
    /\ ret[t] = <<-1>>
    /\ errno[t] = ENOSYS
====
